---- MODULE Spec2Model ----
(***************************************************************************)
(* A model of src/bin/client.rs: the retry loop of main, the request       *)
(* builder Action::get_subscribe_request and the session geyser_subscribe. *)
(*                                                                         *)
(* Only Action::Subscribe is modelled; the one-shot queries and the health *)
(* actions have no session.  The model starts at client.rs:646, after the  *)
(* command line (or the interactive prompt) has produced the arguments.    *)
(*                                                                         *)
(* Text is a tuple of one-character strings, so that split_once, trim and  *)
(* parse are computed and not assumed.  Option<T> is a tuple of length 0   *)
(* (None) or 1 (Some).  A HashMap<String, V> is a function whose domain is *)
(* its key set.                                                            *)
(***************************************************************************)
EXTENDS Integers, Sequences, FiniteSets, TLC

\* ------------------------------------------------------------------ bounds
\* connection attempts of one process
MaxAttempts == 2
\* calls of next_backoff() in BackoffSpec
MaxCalls == 14
\* items one session takes from its stream
MaxMsgs == 2
\* largest resub threshold tried
MaxResub == 2
\* longest list of filter strings given to the builder in BuilderSpec
MaxLen == 2

\* ------------------------------------------------------------ Option, maps
NoneOpt == <<>>

Some(v) == <<v>>

IsSome(o) == Len(o) = 1

Unwrap(o) == o[1]

unwrap_or(o, d) == IF IsSome(o) THEN o[1] ELSE d

EmptyMap == [k \in {} |-> <<>>]

Insert(m, k, v) == [x \in (DOMAIN m) \cup {k} |-> IF x = k THEN v ELSE m[x]]

\* -------------------------------------------------------------------- text
DigitChars == <<"0", "1", "2", "3", "4", "5", "6", "7", "8", "9">>

IsDigit(c) == \E i \in 1..10 : DigitChars[i] = c

DigitVal(c) == (CHOOSE i \in 1..10 : DigitChars[i] = c) - 1

\* The longest digit string whose value the model computes (TLC integers are
\* 32 bits wide; u64 holds 20 digits).  Every input drawn is shorter.
MaxDigits == 9

\* Variant (differs from the code): the text is split at the last c.
split_once_last(s, c) ==
    IF \E i \in 1..Len(s) : s[i] = c
    THEN LET i == CHOOSE j \in 1..Len(s) :
                      s[j] = c /\ \A k \in (j + 1)..Len(s) : s[k] # c
         IN  <<<<SubSeq(s, 1, i - 1), SubSeq(s, i + 1, Len(s))>>>>
    ELSE <<>>

\* str::split_once(c): the text before and after the first c, or None.
split_once(s, c) ==
    IF \E i \in 1..Len(s) : s[i] = c
    THEN LET i == CHOOSE j \in 1..Len(s) :
                      s[j] = c /\ \A k \in 1..(j - 1) : s[k] # c
         IN  Some(<<SubSeq(s, 1, i - 1), SubSeq(s, i + 1, Len(s))>>)
    ELSE NoneOpt

RECURSIVE DigitsValue(_)
DigitsValue(s) ==
    IF s = <<>> THEN 0
    ELSE 10 * DigitsValue(SubSeq(s, 1, Len(s) - 1)) + DigitVal(s[Len(s)])

\* str::parse::<u64>(): an optional leading "+", then one or more digits and
\* nothing else (no sign "-", no blanks); Some(value) or None for Err.
parse_u64(s) ==
    LET body == IF s # <<>> /\ s[1] = "+" THEN Tail(s) ELSE s
    IN  IF body # <<>> /\ (\A i \in 1..Len(body) : IsDigit(body[i]))
           /\ Len(body) <= MaxDigits
        THEN Some(DigitsValue(body))
        ELSE NoneOpt

RECURSIVE TrimStart(_)
TrimStart(s) == IF s # <<>> /\ s[1] = " " THEN TrimStart(Tail(s)) ELSE s

RECURSIVE TrimEnd(_)
TrimEnd(s) ==
    IF s # <<>> /\ s[Len(s)] = " " THEN TrimEnd(SubSeq(s, 1, Len(s) - 1)) ELSE s

\* str::trim()
trim(s) == TrimEnd(TrimStart(s))

\* ------------------------------------------------------------------ results
Ok(v) == [ok |-> TRUE, val |-> v]

\* anyhow::Error: the message, and the text formatted into it when there is one
Err(msg, arg) == [ok |-> FALSE, msg |-> msg, arg |-> arg]

\* ------------------------------------------------- the request and its parts
Label == "client"

\* SubscribeRequest::default()
DefaultRequest ==
    [slots |-> EmptyMap, accounts |-> EmptyMap, transactions |-> EmptyMap,
     transactions_status |-> EmptyMap, entry |-> EmptyMap, blocks |-> EmptyMap,
     blocks_meta |-> EmptyMap, commitment |-> NoneOpt,
     accounts_data_slice |-> <<>>, ping |-> NoneOpt, from_slot |-> NoneOpt]

\* SubscribeRequestFilterSlots::default()
DefaultSlotsFilter ==
    [filter_by_commitment |-> NoneOpt, interslot_updates |-> NoneOpt]

\* One --accounts-memcmp string: `offset,data in base58`.
memcmp_filter(filter) ==
    LET parts == split_once(filter, ",")
    IN  IF IsSome(parts)
        THEN LET offset == parse_u64(Unwrap(parts)[1])
             IN  IF IsSome(offset)
                 THEN Ok([kind |-> "Memcmp", offset |-> Unwrap(offset),
                          base58 |-> trim(Unwrap(parts)[2])])
                 ELSE Err("invalid offset", NoneOpt)
        ELSE Err("invalid memcmp", NoneOpt)

\* Variant (differs from the code): "lt" and "gt" are exchanged.
lamports_cmp_swapped(cmp) ==
    IF cmp = <<"e", "q">> THEN <<"Eq">>
    ELSE IF cmp = <<"n", "e">> THEN <<"Ne">>
    ELSE IF cmp = <<"l", "t">> THEN <<"Gt">>
    ELSE IF cmp = <<"g", "t">> THEN <<"Lt">>
    ELSE <<>>

\* The comparator of one lamports filter.
lamports_cmp(cmp) ==
    IF cmp = <<"e", "q">> THEN Some("Eq")
    ELSE IF cmp = <<"n", "e">> THEN Some("Ne")
    ELSE IF cmp = <<"l", "t">> THEN Some("Lt")
    ELSE IF cmp = <<"g", "t">> THEN Some("Gt")
    ELSE NoneOpt

\* One --accounts-lamports string: `eq:42` / `ne:42` / `lt:42` / `gt:42`.
\* The value is parsed before the comparator is matched.
lamports_filter(filter) ==
    LET parts == split_once(filter, ":")
    IN  IF IsSome(parts)
        THEN LET cmp == Unwrap(parts)[1]
                 value == parse_u64(Unwrap(parts)[2])
             IN  IF ~IsSome(value)
                 THEN Err("invalid lamports value: ", Some(Unwrap(parts)[2]))
                 ELSE IF IsSome(lamports_cmp(cmp))
                 THEN Ok([kind |-> "Lamports", cmp |-> Unwrap(lamports_cmp(cmp)),
                          value |-> Unwrap(value)])
                 ELSE Err("invalid lamports filter: ", Some(cmp))
        ELSE Err("invalid lamports", NoneOpt)

\* Variant (differs from the code): offset and length change places.
data_slice_entry_swapped(data_slice) ==
    LET parts == split_once(data_slice, ",")
    IN  IF IsSome(parts)
        THEN LET offset == parse_u64(Unwrap(parts)[1])
                 length == parse_u64(Unwrap(parts)[2])
             IN  IF IsSome(offset) /\ IsSome(length)
                 THEN Ok([offset |-> Unwrap(length), length |-> Unwrap(offset)])
                 ELSE Err("invalid data_slice", NoneOpt)
        ELSE Err("invalid data_slice", NoneOpt)

\* One --accounts-data-slice string: `offset,size`.
data_slice_entry(data_slice) ==
    LET parts == split_once(data_slice, ",")
    IN  IF IsSome(parts)
        THEN LET offset == parse_u64(Unwrap(parts)[1])
                 length == parse_u64(Unwrap(parts)[2])
             IN  IF IsSome(offset) /\ IsSome(length)
                 THEN Ok([offset |-> Unwrap(offset), length |-> Unwrap(length)])
                 ELSE Err("invalid data_slice", NoneOpt)
        ELSE Err("invalid data_slice", NoneOpt)

\* A `for` loop that pushes one(x) for every x of strs and leaves at the
\* first error (`?` / bail!), for one in {memcmp, lamports, data_slice}.
RECURSIVE memcmp_filters(_)
memcmp_filters(strs) ==
    IF strs = <<>> THEN Ok(<<>>)
    ELSE LET first == memcmp_filter(Head(strs))
         IN  IF ~first.ok THEN first
             ELSE LET rest == memcmp_filters(Tail(strs))
                  IN  IF ~rest.ok THEN rest ELSE Ok(<<first.val>> \o rest.val)

RECURSIVE lamports_filters(_)
lamports_filters(strs) ==
    IF strs = <<>> THEN Ok(<<>>)
    ELSE LET first == lamports_filter(Head(strs))
         IN  IF ~first.ok THEN first
             ELSE LET rest == lamports_filters(Tail(strs))
                  IN  IF ~rest.ok THEN rest ELSE Ok(<<first.val>> \o rest.val)

RECURSIVE data_slices(_)
data_slices(strs) ==
    IF strs = <<>> THEN Ok(<<>>)
    ELSE LET first == data_slice_entry(Head(strs))
         IN  IF ~first.ok THEN first
             ELSE LET rest == data_slices(Tail(strs))
                  IN  IF ~rest.ok THEN rest ELSE Ok(<<first.val>> \o rest.val)

\* Variant (differs from the code): the added elements come first.
extend_front(v, more) == more \o v

\* Vec::extend
extend(v, more) == v \o more

\* Variant (differs from the code): the lamports filters are pushed first.
pushed_lamports_first(memcmp, datasize, token, lamports) ==
    lamports \o memcmp \o datasize \o token

\* `filters` after the four groups of filters.push(..), in the order of the
\* code: client.rs:431-449, 450-454, 455-459, 460-484
pushed(memcmp, datasize, token, lamports) ==
    memcmp \o datasize \o token \o lamports

\* Variant (differs from the code): the accounts options are always read.
accounts_enabled_always(a) == TRUE

\* `if args.accounts`, client.rs:420
accounts_enabled(a) == a.accounts

\* The accounts filter map of the request.  `file` is what reading and
\* parsing the file at accounts_account_path gives at this call.
accounts_map(a, file) ==
    IF ~accounts_enabled(a) THEN Ok(EmptyMap)
    ELSE IF IsSome(a.accounts_account_path) /\ ~file.ok THEN file
    ELSE LET accounts_account ==
                 IF IsSome(a.accounts_account_path)
                 THEN extend(a.accounts_account, file.val)
                 ELSE a.accounts_account
             memcmp == memcmp_filters(a.accounts_memcmp)
             datasize ==
                 IF IsSome(a.accounts_datasize)
                 THEN <<[kind |-> "Datasize", size |-> Unwrap(a.accounts_datasize)]>>
                 ELSE <<>>
             token ==
                 IF a.accounts_token_account_state
                 THEN <<[kind |-> "TokenAccountState", value |-> TRUE]>>
                 ELSE <<>>
             lamports == lamports_filters(a.accounts_lamports)
         IN  IF ~memcmp.ok THEN memcmp
             ELSE IF ~lamports.ok THEN lamports
             ELSE Ok(Insert(EmptyMap, Label,
                      [account |-> accounts_account,
                       owner |-> a.accounts_owner,
                       filters |-> pushed(memcmp.val, datasize, token,
                                          lamports.val),
                       nonempty_txn_signature |-> a.accounts_nonempty_txn_signature]))

slots_map(a) ==
    IF a.slots
    THEN Insert(EmptyMap, Label,
                [filter_by_commitment |-> a.slots_filter_by_commitment,
                 interslot_updates |-> a.slots_interslot_updates])
    ELSE EmptyMap

transactions_map(a) ==
    IF a.transactions
    THEN Insert(EmptyMap, Label,
                [vote |-> a.transactions_vote,
                 failed |-> a.transactions_failed,
                 signature |-> a.transactions_signature,
                 account_include |-> a.transactions_account_include,
                 account_exclude |-> a.transactions_account_exclude,
                 account_required |-> a.transactions_account_required])
    ELSE EmptyMap

transactions_status_map(a) ==
    IF a.transactions_status
    THEN Insert(EmptyMap, Label,
                [vote |-> a.transactions_status_vote,
                 failed |-> a.transactions_status_failed,
                 signature |-> a.transactions_status_signature,
                 account_include |-> a.transactions_status_account_include,
                 account_exclude |-> a.transactions_status_account_exclude,
                 account_required |-> a.transactions_status_account_required])
    ELSE EmptyMap

\* SubscribeRequestFilterEntry {} and SubscribeRequestFilterBlocksMeta {}
EmptyFilter == [x \in {} |-> <<>>]

entries_map(a) ==
    IF a.entries THEN Insert(EmptyMap, Label, EmptyFilter) ELSE EmptyMap

blocks_map(a) ==
    IF a.blocks
    THEN Insert(EmptyMap, Label,
                [account_include |-> a.blocks_account_include,
                 include_transactions |-> a.blocks_include_transactions,
                 include_accounts |-> a.blocks_include_accounts,
                 include_entries |-> a.blocks_include_entries])
    ELSE EmptyMap

\* Variant (differs from the code): blocks_meta follows the blocks flag.
blocks_meta_map_by_blocks(a) ==
    IF a.blocks THEN Insert(EmptyMap, Label, EmptyFilter) ELSE EmptyMap

blocks_meta_map(a) ==
    IF a.blocks_meta THEN Insert(EmptyMap, Label, EmptyFilter) ELSE EmptyMap

\* args.resub.unwrap_or(0)
resub_of(a) == unwrap_or(a.resub, 0)

\* Action::get_subscribe_request for Action::Subscribe(a): Ok of the request
\* with resub, stats and verify_encoding, or the first error in code order.
get_subscribe_request(a, commitment, file) ==
    LET accounts == accounts_map(a, file)
        accounts_data_slice == data_slices(a.accounts_data_slice)
    IN  IF ~accounts.ok THEN accounts
        ELSE IF ~accounts_data_slice.ok THEN accounts_data_slice
        ELSE Ok([request |->
                     [slots |-> slots_map(a),
                      accounts |-> accounts.val,
                      transactions |-> transactions_map(a),
                      transactions_status |-> transactions_status_map(a),
                      entry |-> entries_map(a),
                      blocks |-> blocks_map(a),
                      blocks_meta |-> blocks_meta_map(a),
                      commitment |-> commitment,
                      accounts_data_slice |-> accounts_data_slice.val,
                      ping |-> IF IsSome(a.ping)
                               THEN Some([id |-> Unwrap(a.ping)]) ELSE NoneOpt,
                      from_slot |-> a.from_slot],
                 resub |-> resub_of(a),
                 stats |-> a.stats,
                 verify_encoding |-> a.verify_encoding])

\* Args::get_commitment: Some(self.commitment.unwrap_or_default().into())
get_commitment(c) == Some(unwrap_or(c, "Processed"))

\* ------------------------------------------------------------------ inputs
\* ActionSubscribe with every option absent (as at client.rs:1351).
NoArgs ==
    [accounts |-> FALSE, accounts_nonempty_txn_signature |-> NoneOpt,
     accounts_account |-> <<>>, accounts_account_path |-> NoneOpt,
     accounts_owner |-> <<>>, accounts_memcmp |-> <<>>,
     accounts_datasize |-> NoneOpt, accounts_token_account_state |-> FALSE,
     accounts_lamports |-> <<>>, accounts_data_slice |-> <<>>,
     slots |-> FALSE, slots_filter_by_commitment |-> NoneOpt,
     slots_interslot_updates |-> NoneOpt,
     transactions |-> FALSE, transactions_vote |-> NoneOpt,
     transactions_failed |-> NoneOpt, transactions_signature |-> NoneOpt,
     transactions_account_include |-> <<>>,
     transactions_account_exclude |-> <<>>,
     transactions_account_required |-> <<>>,
     transactions_status |-> FALSE, transactions_status_vote |-> NoneOpt,
     transactions_status_failed |-> NoneOpt,
     transactions_status_signature |-> NoneOpt,
     transactions_status_account_include |-> <<>>,
     transactions_status_account_exclude |-> <<>>,
     transactions_status_account_required |-> <<>>,
     entries |-> FALSE, blocks |-> FALSE, blocks_account_include |-> <<>>,
     blocks_include_transactions |-> NoneOpt,
     blocks_include_accounts |-> NoneOpt, blocks_include_entries |-> NoneOpt,
     blocks_meta |-> FALSE, from_slot |-> NoneOpt, ping |-> NoneOpt,
     resub |-> NoneOpt, stats |-> FALSE, verify_encoding |-> FALSE,
     commitment |-> NoneOpt]

\* "10,abc"
Txt_10_abc == <<"1", "0", ",", "a", "b", "c">>

\* "abc"
Txt_abc == <<"a", "b", "c">>

\* "gt:100"
Txt_gt_100 == <<"g", "t", ":", "1", "0", "0">>

\* "foo:100"
Txt_foo_100 == <<"f", "o", "o", ":", "1", "0", "0">>

\* "0,32"
Txt_0_32 == <<"0", ",", "3", "2">>

\* "x,1"
Txt_x_1 == <<"x", ",", "1">>

\* slots only, with a commitment and a ping id
ArgsSlots ==
    [NoArgs EXCEPT !.slots = TRUE, !.slots_filter_by_commitment = Some(TRUE),
                   !.commitment = Some("Confirmed"), !.ping = Some(7),
                   !.from_slot = Some(5)]

\* accounts and transactions, every accounts option given, addresses from a file
ArgsAccounts ==
    [NoArgs EXCEPT !.accounts = TRUE, !.transactions = TRUE,
                   !.accounts_account = <<"A1">>,
                   !.accounts_account_path = Some("accounts.json"),
                   !.accounts_memcmp = <<Txt_10_abc>>,
                   !.accounts_datasize = Some(165),
                   !.accounts_lamports = <<Txt_gt_100>>,
                   !.accounts_data_slice = <<Txt_0_32>>]

\* a memcmp string without a comma
ArgsBadMemcmp ==
    [NoArgs EXCEPT !.accounts = TRUE, !.accounts_memcmp = <<Txt_10_abc, Txt_abc>>]

\* a lamports string with an unknown comparator
ArgsBadLamports ==
    [NoArgs EXCEPT !.accounts = TRUE, !.accounts_lamports = <<Txt_foo_100>>]

\* a data slice whose offset is no number
ArgsBadDataSlice ==
    [NoArgs EXCEPT !.slots = TRUE, !.accounts_data_slice = <<Txt_x_1>>]

\* More texts for the builder: "x,abc", "0, ab ", "+7,q", "1,2,3", ",abc",
\* "10,", "-1,a", " 1,a"
Txt_x_abc == <<"x", ",", "a", "b", "c">>

Txt_0_ab_blanks == <<"0", ",", " ", "a", "b", " ">>

Txt_plus7_q == <<"+", "7", ",", "q">>

Txt_1_2_3 == <<"1", ",", "2", ",", "3">>

Txt_comma_abc == <<",", "a", "b", "c">>

Txt_10_comma == <<"1", "0", ",">>

Txt_minus1_a == <<"-", "1", ",", "a">>

Txt_blank1_a == <<" ", "1", ",", "a">>

MemcmpTexts ==
    {Txt_10_abc, Txt_abc, Txt_x_abc, Txt_0_ab_blanks, Txt_plus7_q, Txt_1_2_3,
     Txt_comma_abc, Txt_10_comma, Txt_minus1_a, Txt_blank1_a}

\* "eq:0", "ne:7", "lt:42", "gt:x", "gt100", "gt:", ":5", "GT:1", "gt: 1",
\* "gt:1:2"
Txt_eq_0 == <<"e", "q", ":", "0">>

Txt_ne_7 == <<"n", "e", ":", "7">>

Txt_lt_42 == <<"l", "t", ":", "4", "2">>

Txt_gt_x == <<"g", "t", ":", "x">>

Txt_gt100 == <<"g", "t", "1", "0", "0">>

Txt_gt_colon == <<"g", "t", ":">>

Txt_colon_5 == <<":", "5">>

Txt_GT_1 == <<"G", "T", ":", "1">>

Txt_gt_blank1 == <<"g", "t", ":", " ", "1">>

Txt_gt_1_2 == <<"g", "t", ":", "1", ":", "2">>

LamportsTexts ==
    {Txt_gt_100, Txt_foo_100, Txt_eq_0, Txt_ne_7, Txt_lt_42, Txt_gt_x,
     Txt_gt100, Txt_gt_colon, Txt_colon_5, Txt_GT_1, Txt_gt_blank1, Txt_gt_1_2}

\* "1,x", "5", "4,8", "+1,+2", "1, 2"
Txt_1_x == <<"1", ",", "x">>

Txt_5 == <<"5">>

Txt_4_8 == <<"4", ",", "8">>

Txt_plus1_plus2 == <<"+", "1", ",", "+", "2">>

Txt_1_blank2 == <<"1", ",", " ", "2">>

DataSliceTexts ==
    {Txt_0_32, Txt_x_1, Txt_1_x, Txt_5, Txt_4_8, Txt_plus1_plus2, Txt_1_blank2,
     Txt_1_2_3}

\* The lists of at most n elements of S (a Vec<String> option given n times).
ListsUpTo(S, n) == UNION {[1..k -> S] : k \in 0..n}

\* accounts with a datasize and the token flag, no list given yet
ArgsBuilderBase ==
    [NoArgs EXCEPT !.accounts = TRUE, !.accounts_account = <<"A1">>,
                   !.accounts_datasize = Some(165),
                   !.accounts_token_account_state = TRUE]

\* Arguments with every kind of accounts filter at once: lists of well
\* formed memcmp and lamports strings, with or without --accounts-datasize
\* and --accounts-token-account-state.
FilterListArgs ==
    {[ArgsBuilderBase EXCEPT !.accounts_memcmp = m, !.accounts_lamports = l,
                             !.accounts_datasize = d,
                             !.accounts_token_account_state = t] :
        m \in ListsUpTo({Txt_10_abc, Txt_0_ab_blanks}, MaxLen),
        l \in ListsUpTo({Txt_gt_100, Txt_lt_42}, MaxLen),
        d \in {NoneOpt, Some(165)},
        t \in BOOLEAN}

\* The arguments the builder is tried with in BuilderSpec: every list of
\* memcmp, of lamports and of data-slice strings by itself, every mix of at
\* most one string of each, and every choice of the seven category flags;
\* the first two with --accounts given or not and with or without the file;
\* and FilterListArgs.
BuilderArgsSet ==
    FilterListArgs \cup
    {[a EXCEPT !.accounts = acc, !.accounts_account_path = path] :
        a \in {[ArgsBuilderBase EXCEPT !.accounts_memcmp = l] :
                   l \in ListsUpTo(MemcmpTexts, MaxLen)}
              \cup {[ArgsBuilderBase EXCEPT !.accounts_lamports = l] :
                       l \in ListsUpTo(LamportsTexts, MaxLen)}
              \cup {[ArgsBuilderBase EXCEPT !.accounts_data_slice = l] :
                       l \in ListsUpTo(DataSliceTexts, MaxLen)}
              \cup {[ArgsBuilderBase EXCEPT !.accounts_memcmp = m,
                                            !.accounts_lamports = l,
                                            !.accounts_data_slice = d] :
                       m \in ListsUpTo(MemcmpTexts, 1),
                       l \in ListsUpTo(LamportsTexts, 1),
                       d \in ListsUpTo(DataSliceTexts, 1)},
        acc \in BOOLEAN,
        path \in {NoneOpt, Some("accounts.json")}}
    \cup
    {[ArgsAccounts EXCEPT !.accounts = f[1], !.slots = f[2],
                          !.transactions = f[3], !.transactions_status = f[4],
                          !.entries = f[5], !.blocks = f[6],
                          !.blocks_meta = f[7]] :
        f \in [1..7 -> BOOLEAN]}

\* slots only, with an address and an address file given for accounts
ArgsPathNoAccounts ==
    [NoArgs EXCEPT !.slots = TRUE, !.accounts_account = <<"A1">>,
                   !.accounts_account_path = Some("accounts.json")]

FilterArgs ==
    {ArgsSlots, ArgsAccounts, ArgsBadMemcmp, ArgsBadLamports, ArgsBadDataSlice,
     ArgsPathNoAccounts}

\* The arguments a process may run with: one of FilterArgs, with each of
\* --resub, --stats and --verify-encoding given or not.
ArgsSet ==
    {[a EXCEPT !.resub = r, !.stats = st, !.verify_encoding = v] :
        a \in FilterArgs,
        r \in {NoneOpt} \cup {Some(n) : n \in 0..MaxResub},
        st \in BOOLEAN, v \in BOOLEAN}

\* What reading the address file gives at one call: an I/O or JSON error, or
\* the list in it (which may have changed since the last call).
FileOutcomes ==
    {Err("io", NoneOpt), Err("json", NoneOpt), Ok(<<>>), Ok(<<"A2">>)}

\* The variants of SubscribeUpdate.update_oneof; "None" is the unset oneof.
DataKinds ==
    {"Account", "Slot", "Transaction", "TransactionStatus", "Entry",
     "BlockMeta", "Block"}

Kinds == DataKinds \cup {"Ping", "Pong"}

\* What the verifier gets for one update: the received message as prost
\* encodes it, the converted update as prost encodes it and as the manual
\* encoder does, each as <<length, bytes>>.
EncCases ==
    {[prost0 |-> <<2, "ab">>, prost |-> <<2, "ab">>, ref |-> <<2, "ab">>],
     [prost0 |-> <<2, "ab">>, prost |-> <<2, "ab">>, ref |-> <<2, "ax">>],
     [prost0 |-> <<2, "ab">>, prost |-> <<2, "ab">>, ref |-> <<3, "abc">>],
     [prost0 |-> <<2, "ab">>, prost |-> <<3, "abc">>, ref |-> <<3, "abc">>],
     [prost0 |-> <<2, "ab">>, prost |-> <<2, "xb">>, ref |-> <<2, "xb">>]}

\* One SubscribeUpdate: its variant, whether created_at is present (and no
\* earlier than the epoch), and whether the bytes of its payload decode
\* (addresses, signatures, hashes, status, rewards).
Updates ==
    [update_oneof : Kinds \cup {"None"}, created_at : BOOLEAN,
     payload_ok : BOOLEAN]

\* What the two timed encode paths cost on one update, in nanoseconds:
\* <<prost, manual>>.  The sums are only displayed, so one case is drawn.
TimingCases == {<<2, 1>>}

\* ------------------------------------------- ExponentialBackoff::default()
\* The policy retry() is given at client.rs:651, in milliseconds (the crate
\* computes in nanoseconds; fractions of a millisecond are dropped here).
\* initial_interval, the first entry of the list at client.rs:649
InitialIntervalMs == 500

\* multiplier 1.5, the ratio of the entries of the list at client.rs:649
MultiplierNum == 3

MultiplierDen == 2

\* randomization_factor 0.5
RandomizationNum == 1

RandomizationDen == 2

\* max_interval, one minute
MaxIntervalMs == 60000

\* max_elapsed_time, Some(fifteen minutes)
MaxElapsedTimeMs == 900000

\* The values rand::random::<f64>() is drawn from, as <<numerator,
\* denominator>>: the two ends of its range.
RandomDraws == {<<0, 1>>, <<1, 1>>}

\* The time an attempt takes from its start to its failure: next to
\* nothing, or max_elapsed_time and more (a connect that hangs, a session
\* that streams for a while).
Durations == {0, MaxElapsedTimeMs, MaxElapsedTimeMs + 1}

\* What get_elapsed_time() reads when retry() asks for a delay.  The process
\* keeps no clock of its own and an attempt may take any time, so the
\* reading is the environment's: early enough for every delay to fit, at the
\* limit, or past it.
ClockReadings ==
    {MaxElapsedTimeMs - 2 * MaxIntervalMs, MaxElapsedTimeMs, MaxElapsedTimeMs + 1}

\* The backoff object as retry() begins: reset() has set current_interval.
ExponentialBackoff_default == [current_interval |-> InitialIntervalMs]

\* get_random_value_from_interval: a point of
\* [interval - factor * interval, interval + factor * interval].
get_random_value_from_interval(random, current_interval) ==
    LET delta == (RandomizationNum * current_interval) \div RandomizationDen
        min_interval == current_interval - delta
        max_interval == current_interval + delta
    IN  min_interval + (random[1] * (max_interval - min_interval)) \div random[2]

\* Variant (differs from the code): the interval is not multiplied.
increment_current_interval_fixed(current_interval) == current_interval

\* increment_current_interval: times the multiplier, at most max_interval.
increment_current_interval(current_interval) ==
    IF current_interval * MultiplierNum >= MaxIntervalMs * MultiplierDen
    THEN MaxIntervalMs
    ELSE (current_interval * MultiplierNum) \div MultiplierDen

\* Backoff::next_backoff with `elapsed` since retry() began and the random
\* number drawn: the delay to sleep (None: give up) and the object after.
next_backoff(b, elapsed, random) ==
    IF elapsed > MaxElapsedTimeMs
    THEN [delay |-> NoneOpt, backoff |-> b]
    ELSE LET randomized_interval ==
                 get_random_value_from_interval(random, b.current_interval)
         IN  [delay |-> IF elapsed + randomized_interval <= MaxElapsedTimeMs
                        THEN Some(randomized_interval) ELSE NoneOpt,
              backoff |-> [current_interval |->
                              increment_current_interval(b.current_interval)]]

\* ------------------------------------------------------------------- state
VARIABLES
    args,            \* the parsed ActionSubscribe and Args.commitment
    pc,              \* where the process is
    zero_attempts,   \* *zero_attempts, client.rs:646
    zero_attempts_lock, \* the Mutex around it: "free" or "held"
    retry_notices,   \* "Retry to connect to the server" lines logged
    connects,        \* calls of args.connect() started
    session,         \* the parameters of the running geyser_subscribe
    sent,            \* requests sent to the server in this session, in order
    consumed,        \* items this session has taken from the stream
    pings,           \* Ping updates among them
    counter,         \* counter, client.rs:816
    pb_c,            \* the pb_*_c counts, client.rs:792-808
    pb_verify_c,     \* pb_verify_c, client.rs:810
    displayed,       \* print_update calls of this session
    unmatched_c,     \* updates compared in this session whose encodings differ
    artifacts,       \* files written by this session to grpc-client-verify
    result,          \* what the last attempt returned to retry
    exit_status,     \* how main returned
    backoff,         \* the ExponentialBackoff of retry(), client.rs:651
    clock,           \* BackoffSpec: milliseconds since retry() began
    calls,           \* BackoffSpec: the calls of next_backoff(), in order
    accounts_file,   \* what the address file gave in this attempt, if read
    last,            \* the item stream.next() gave last, and where it went
    initial_requests \* the initial requests this process has transmitted

vars ==
    <<args, pc, zero_attempts, zero_attempts_lock, retry_notices, connects,
      session, sent,
      consumed, pings, counter, pb_c, pb_verify_c, displayed, unmatched_c,
      artifacts, result, exit_status, backoff, clock, calls, accounts_file,
      last, initial_requests>>

retryVars == <<backoff, clock, calls>>

mainVars ==
    <<args, zero_attempts, zero_attempts_lock, retry_notices, connects,
      exit_status, retryVars,
      initial_requests>>

sessionVars ==
    <<session, sent, consumed, pings, counter, pb_c, pb_verify_c, displayed,
      unmatched_c, artifacts, accounts_file, last>>

\* Variant (differs from the code): the total begins at one.
ZeroCounts_total_one ==
    [accounts |-> 0, slots |-> 0, txs |-> 0, txs_st |-> 0, entries |-> 0,
     blocks_mt |-> 0, blocks |-> 0, pp |-> 0, total |-> 1]

\* The pb_*_c counts as geyser_subscribe declares them, client.rs:792-808.
ZeroCounts ==
    [accounts |-> 0, slots |-> 0, txs |-> 0, txs_st |-> 0, entries |-> 0,
     blocks_mt |-> 0, blocks |-> 0, pp |-> 0, total |-> 0]

\* No item taken from the stream yet.
NoMessage == [variant |-> "none", route |-> "none"]

\* What `last` keeps of msg.update_oneof.
item_of(update_oneof) ==
    IF update_oneof \in {"Ping", "Pong", "None"} THEN update_oneof ELSE "Data"

\* An item of the stream as the loop treats it: `variant` is "Data" for the
\* seven variants with a payload, "Ping", "Pong", "None" for a message with
\* no update_oneof, "Err" for an error item; `route` is the code it was
\* handed to: "verifier" (client.rs:845-885), "display" (client.rs:890-1011),
\* "counted" (stats mode without verifier, client.rs:837-842, 887), or "none".
Message(variant, route) == [variant |-> variant, route |-> route]

NoSession == [request |-> DefaultRequest, resub |-> 0, stats |-> FALSE,
              verify_encoding |-> FALSE]

\* No error value: the attempt returned Ok(()), or has not returned.
NoError == [msg |-> "", arg |-> NoneOpt]

NoResult == [class |-> "none", why |-> "none", error |-> NoError]

Init ==
    /\ args \in ArgsSet
    /\ pc = "attempt"
    /\ zero_attempts = TRUE
    /\ zero_attempts_lock = "free"
    /\ retry_notices = 0
    /\ connects = 0
    /\ session = NoSession
    /\ sent = <<>>
    /\ consumed = 0
    /\ pings = 0
    /\ counter = 0
    /\ pb_c = ZeroCounts
    /\ pb_verify_c = NoneOpt
    /\ displayed = 0
    /\ unmatched_c = 0
    /\ artifacts = 0
    /\ result = NoResult
    /\ exit_status = "running"
    /\ backoff = ExponentialBackoff_default
    /\ clock = 0
    /\ calls = <<>>
    /\ accounts_file = NoneOpt
    /\ last = NoMessage
    /\ initial_requests = {}

\* ------------------------------------------------- the session's own parts
\* The acknowledgement sent for a Ping, client.rs:1000-1003.
\* Variant (differs from the code): the rest is taken from the session's request.
PongRequest_from_initial == [session.request EXCEPT !.ping = Some([id |-> 1])]

PongRequest == [DefaultRequest EXCEPT !.ping = Some([id |-> 1])]

\* Variant (differs from the code): the resubscription edits the request the session began with.
ResubRequest_from_initial ==
    [session.request EXCEPT !.slots = Insert(EmptyMap, Label, DefaultSlotsFilter)]

\* The request of the resubscription, client.rs:1022-1038.
ResubRequest ==
    [slots |-> Insert(EmptyMap, Label, DefaultSlotsFilter),
     accounts |-> EmptyMap, transactions |-> EmptyMap,
     transactions_status |-> EmptyMap, entry |-> EmptyMap, blocks |-> EmptyMap,
     blocks_meta |-> EmptyMap, commitment |-> NoneOpt,
     accounts_data_slice |-> <<>>, ping |-> NoneOpt, from_slot |-> NoneOpt]

\* Variant (differs from the code): the index is compared before it is advanced, and never advanced.
counter_inc_missing(c) == c

\* counter += 1, client.rs:1020
counter_inc(c) == c + 1

\* Variant (differs from the code): the threshold is tested with >= .
resub_due_at_least(c, resub) == c >= resub

\* counter == resub, client.rs:1021
resub_due(c, resub) == c = resub

\* The count that a variant adds to in stats mode, client.rs:822-831.
pb_of(kind) ==
    CASE kind = "Account" -> "accounts"
      [] kind = "Slot" -> "slots"
      [] kind = "Transaction" -> "txs"
      [] kind = "TransactionStatus" -> "txs_st"
      [] kind = "Entry" -> "entries"
      [] kind = "BlockMeta" -> "blocks_mt"
      [] kind = "Block" -> "blocks"
      [] kind = "Ping" -> "pp"
      [] kind = "Pong" -> "pp"

\* Variant (differs from the code): the total is not advanced.
pb_count_no_total(c, kind) ==
    [c EXCEPT ![pb_of(kind)] = @ + 1]

\* *pb_c += 1; pb_total_c += 1, client.rs:837-840
pb_count(c, kind) ==
    [c EXCEPT ![pb_of(kind)] = @ + 1, !.total = @ + 1]

\* The three encodings of one update are not all the same, in length or in
\* bytes: what unmatched_c counts.
differs(enc) ==
    ~(enc.prost0 = enc.prost /\ enc.prost = enc.ref)

\* Variant (differs from the code): only the lengths are compared.
unmatched_lengths_only(enc) ==
    \/ enc.prost0[1] # enc.prost[1]
    \/ enc.prost[1] # enc.ref[1]

\* The comparison of the verifier, client.rs:868-871.
unmatched(enc) ==
    \/ enc.prost0[1] # enc.prost[1]
    \/ enc.prost[1] # enc.ref[1]
    \/ enc.prost0[2] # enc.prost[2]
    \/ enc.prost[2] # enc.ref[2]

\* How main classifies an error of each origin for the retry loop:
\* client.rs:665 (connect), :694 (request building), :701 (the session).
classify_connect == "transient"

\* Variant (differs from the code): a building error is mapped like the others.
classify_build_transient == "transient"

classify_build == "permanent"

classify_session == "transient"


\* The attempt returns to retry(): Ok(()) or an error with its class, from the
\* place `why`. client.rs:765-769
ReturnErr(class, why, e) ==
    /\ result' = [class |-> class, why |-> why,
                  error |-> [msg |-> e.msg, arg |-> e.arg]]
    /\ pc' = "returned"

Return(class, why) == ReturnErr(class, why, NoError)

\* One request on the subscribe channel, with the place that sent it.
Sent(site, request) == [site |-> site, request |-> request]

\* Variant (differs from the code): the stream is opened with no request.
subscribe_with_request_none(request) == <<>>

\* client.subscribe_with_request(Some(request)): what is on the new channel
\* once the stream is open. client.rs:813
subscribe_with_request(request) == <<Sent("initial", request)>>

\* Variant (differs from the code): the request goes ahead of those sent before.
send_ahead(subscribe_tx, site, request) ==
    <<Sent(site, request)>> \o subscribe_tx

\* subscribe_tx.send(request).await: the request follows, on the one
\* channel of the session, those sent before. client.rs:998-1004, 1025-1040
send(subscribe_tx, site, request) == Append(subscribe_tx, Sent(site, request))

\* ----------------------------------------------------------------- actions
\* zero_attempts.lock().await, which completes when the Mutex is free: the
\* Mutex with the guard taken. client.rs:655
lock(mutex) == "held"

\* Variant (differs from the code): the guard is kept over the connect.
drop_kept(mutex) == mutex

\* drop(zero_attempts): the Mutex with the guard given back. client.rs:662
drop(mutex) == "free"

\* Variant (differs from the code): the line is logged at every attempt.
log_retry_always(flag, notices) == notices + 1

\* `if *zero_attempts { .. } else { info!("Retry to connect to the server") }`:
\* the lines logged so far, after this attempt's. client.rs:656-660
log_retry(flag, notices) == IF flag THEN notices ELSE notices + 1

\* The closure of retry() starts: the first-attempt flag, then connect begins.
\* client.rs:655-665
AttemptStart ==
    /\ pc = "attempt"
    /\ zero_attempts_lock = "free"
    /\ zero_attempts' = FALSE
    /\ zero_attempts_lock' = drop(lock(zero_attempts_lock))
    /\ retry_notices' = log_retry(zero_attempts, retry_notices)
    /\ connects' = connects + 1
    /\ pc' = "connect"
    /\ UNCHANGED <<args, sessionVars, result, exit_status, retryVars,
                   initial_requests>>

\* args.connect() returns a client. client.rs:665-666
ConnectOk ==
    /\ pc = "connect"
    /\ pc' = "build"
    /\ UNCHANGED <<mainVars, sessionVars, result>>

\* args.connect() fails. client.rs:665
ConnectFail ==
    /\ pc = "connect"
    /\ Return(classify_connect, "connect")
    /\ UNCHANGED <<mainVars, sessionVars>>

\* Variant (differs from the code): the value is kept whatever the flag.
then_some_always(b, v) == Some(v)

\* bool::then_some, client.rs:810
then_some(b, v) == IF b THEN Some(v) ELSE NoneOpt

\* What the attempt holds of the address file: the outcome of reading it
\* when it is read (client.rs:420-426), nothing when it is not.
file_read(a, file) ==
    IF a.accounts /\ IsSome(a.accounts_account_path) THEN Some(file) ELSE NoneOpt

\* The request is built, after the connect; on success geyser_subscribe is
\* called and sets its counts to zero. client.rs:687-699, 791-811
BuildRequest ==
    /\ pc = "build"
    /\ \E file \in FileOutcomes :
         LET built == get_subscribe_request(args, get_commitment(args.commitment), file)
         IN  IF built.ok
             THEN /\ session' = built.val
                  /\ sent' = <<>>
                  /\ consumed' = 0
                  /\ pings' = 0
                  /\ counter' = 0
                  /\ pb_c' = ZeroCounts
                  /\ pb_verify_c' = then_some(built.val.verify_encoding, <<0, 0>>)
                  /\ displayed' = 0
                  /\ unmatched_c' = 0
                  /\ artifacts' = 0
                  /\ accounts_file' = file_read(args, file)
                  /\ last' = NoMessage
                  /\ pc' = "subscribe"
                  /\ UNCHANGED result
             ELSE /\ ReturnErr(classify_build, "build", built)
                  /\ accounts_file' = file_read(args, file)
                  /\ UNCHANGED <<session, sent, consumed, pings, counter, pb_c,
                                 pb_verify_c, displayed, unmatched_c, artifacts,
                                 last>>
    /\ UNCHANGED mainVars

\* client.subscribe_with_request(Some(request)) opens the stream and sends
\* the initial request, or fails. client.rs:813-816
SubscribeOpen ==
    /\ pc = "subscribe"
    /\ \E ok \in BOOLEAN :
         IF ok
         THEN /\ sent' = subscribe_with_request(session.request)
              /\ initial_requests' = initial_requests \cup {session.request}
              /\ pc' = "next"
              /\ UNCHANGED result
         ELSE /\ Return(classify_session, "subscribe")
              /\ UNCHANGED <<sent, initial_requests>>
    /\ UNCHANGED <<args, zero_attempts, zero_attempts_lock, retry_notices, connects, exit_status,
                   retryVars, session, consumed, pings, counter, pb_c,
                   pb_verify_c, displayed, unmatched_c, artifacts,
                   accounts_file, last>>

\* stream.next() yields Some(Err(status)): logged, the loop is left and the
\* session returns Ok(()). client.rs:1013-1016, 1043-1044
StreamNextErr ==
    /\ pc = "next"
    /\ consumed < MaxMsgs
    /\ consumed' = consumed + 1
    /\ last' = Message("Err", "none")
    /\ Return("ok", "stream_err")
    /\ UNCHANGED <<mainVars, session, sent, pings, counter, pb_c, pb_verify_c,
                   displayed, unmatched_c, artifacts, accounts_file>>

\* stream.next() yields None: the session returns Ok(()). client.rs:817, 1043-1044
StreamEnd ==
    /\ pc = "next"
    /\ Return("ok", "stream_end")
    /\ UNCHANGED <<mainVars, sessionVars>>

\* `continue`: back to stream.next() without passing client.rs:1019-1041.
Continue ==
    /\ pc' = "next"
    /\ UNCHANGED result

\* Variant (differs from the code): the arms of Ping and Pong `continue`.
ToResub_skip_control(m) ==
    IF m.update_oneof \in {"Ping", "Pong"}
    THEN Continue
    ELSE /\ pc' = "resub"
         /\ UNCHANGED result

\* The arm of update m is left at its end: on to client.rs:1019, for every
\* variant handled (client.rs:905-1006).
ToResub(m) ==
    /\ pc' = "resub"
    /\ UNCHANGED result

\* Whether FilteredUpdate::from_subscribe_update accepts the update: it does
\* when the update is well formed; the library decides for the others.
ConvOutcomes(m) ==
    IF m.created_at /\ m.payload_ok THEN {TRUE} ELSE BOOLEAN

\* Variant (differs from the code): the verifier flag selects the stats branch.
stats_mode_by_verify(sess) == sess.verify_encoding

\* `if stats`, client.rs:820: the branch that counts, verifies and continues.
stats_mode(sess) == sess.stats

\* Variant (differs from the code): Pong is handled by the arm of Ping.
variant_of_pong_as_ping(update_oneof) ==
    IF update_oneof \in DataKinds THEN "Data"
    ELSE IF update_oneof \in {"Ping", "Pong"} THEN "Ping"
    ELSE "None"

\* Variant (differs from the code): a message without variant is handled
\* by the arm of Pong.
variant_of_none_as_pong(update_oneof) ==
    IF update_oneof \in DataKinds THEN "Data"
    ELSE IF update_oneof = "Ping" THEN "Ping"
    ELSE "Pong"

\* The arm of the display match that takes msg.update_oneof: one of the
\* seven with a payload, the one of Ping, the one of Pong, the one of None.
\* client.rs:896-1011
variant_of(update_oneof) ==
    IF update_oneof \in DataKinds THEN "Data"
    ELSE IF update_oneof \in {"Ping", "Pong"} THEN update_oneof
    ELSE "None"

\* stream.next() yields Some(Ok(msg)) in stats mode: msg is counted, verified
\* when pb_verify_c is Some, then `continue`.  Only the verifier reads more
\* of msg than its variant. client.rs:817-888
HandleStats ==
    /\ pc = "next"
    /\ consumed < MaxMsgs
    /\ stats_mode(session)
    /\ consumed' = consumed + 1
    /\ \E update_oneof \in Kinds \cup {"None"} :
         /\ pings' = IF update_oneof = "Ping" THEN pings + 1 ELSE pings
         /\ last' = Message(item_of(update_oneof),
                            IF update_oneof = "None" THEN "none"
                            ELSE IF IsSome(pb_verify_c) THEN "verifier"
                            ELSE "counted")
         /\ IF update_oneof = "None"
            THEN /\ Return("ok", "no_variant")
                 /\ UNCHANGED <<pb_c, pb_verify_c, unmatched_c, artifacts>>
            ELSE /\ pb_c' = pb_count(pb_c, update_oneof)
                 /\ IF IsSome(pb_verify_c)
                    THEN \E conv_ok \in UNION {ConvOutcomes(m) :
                                   m \in {u \in Updates :
                                             u.update_oneof = update_oneof}} :
                           IF ~conv_ok
                           THEN /\ Return(classify_session, "convert")
                                /\ UNCHANGED <<pb_verify_c, unmatched_c, artifacts>>
                           ELSE \E ns \in TimingCases,
                                   cmp \in {<<differs(enc), unmatched(enc)>> :
                                               enc \in EncCases} :
                                /\ pb_verify_c' =
                                         Some(<<Unwrap(pb_verify_c)[1] + ns[1],
                                                Unwrap(pb_verify_c)[2] + ns[2]>>)
                                /\ unmatched_c' = IF cmp[1]
                                                  THEN unmatched_c + 1
                                                  ELSE unmatched_c
                                /\ IF cmp[2]
                                   THEN \E io_ok \in BOOLEAN :
                                             IF io_ok
                                             THEN /\ artifacts' = artifacts + 1
                                                  /\ Continue
                                             ELSE /\ Return(classify_session,
                                                            "artifact_io")
                                                  /\ UNCHANGED artifacts
                                   ELSE /\ UNCHANGED artifacts
                                        /\ Continue
                    ELSE /\ UNCHANGED <<pb_verify_c, unmatched_c, artifacts>>
                         /\ Continue
    /\ UNCHANGED <<mainVars, session, sent, counter, displayed, accounts_file>>

\* stream.next() yields Some(Ok(msg)) in display mode: created_at, then the
\* match on the variant. client.rs:817-819, 890-1011
HandleDisplay ==
    /\ pc = "next"
    /\ consumed < MaxMsgs
    /\ ~stats_mode(session)
    /\ consumed' = consumed + 1
    /\ \E m \in Updates :
         /\ pings' = IF m.update_oneof = "Ping" THEN pings + 1 ELSE pings
         /\ last' = Message(item_of(m.update_oneof), "display")
         /\ IF ~m.created_at
            THEN /\ Return(classify_session, "decode")
                 /\ UNCHANGED <<sent, displayed>>
            ELSE IF variant_of(m.update_oneof) = "Data"
            THEN IF m.payload_ok
                 THEN /\ displayed' = displayed + 1
                      /\ ToResub(m)
                      /\ UNCHANGED sent
                 ELSE /\ Return(classify_session, "decode")
                      /\ UNCHANGED <<sent, displayed>>
            ELSE IF variant_of(m.update_oneof) = "Ping"
            THEN \E ok \in BOOLEAN :
                   IF ok
                   THEN /\ sent' = send(sent, "pong", PongRequest)
                        /\ ToResub(m)
                        /\ UNCHANGED displayed
                   ELSE /\ Return(classify_session, "send_pong")
                        /\ UNCHANGED <<sent, displayed>>
            ELSE IF variant_of(m.update_oneof) = "Pong"
            THEN /\ ToResub(m)
                 /\ UNCHANGED <<sent, displayed>>
            ELSE /\ Return("ok", "no_variant")
                 /\ UNCHANGED <<sent, displayed>>
    /\ UNCHANGED <<mainVars, session, counter, pb_c, pb_verify_c, unmatched_c,
                   artifacts, accounts_file>>

\* Variant (differs from the code): the loop is left after the resubscription.
AfterResubscribe_leave == Return("ok", "stream_end")

\* The end of the loop body after the send of the resubscription: back to
\* stream.next() on the same stream. client.rs:1040-1042, 817
AfterResubscribe ==
    /\ pc' = "next"
    /\ UNCHANGED result

\* The message index and the resubscription. client.rs:1019-1041
Resubscribe ==
    /\ pc = "resub"
    /\ counter' = counter_inc(counter)
    /\ IF resub_due(counter_inc(counter), session.resub)
       THEN \E ok \in BOOLEAN :
              IF ok
              THEN /\ sent' = send(sent, "resub", ResubRequest)
                   /\ AfterResubscribe
              ELSE /\ Return(classify_session, "send_resub")
                   /\ UNCHANGED sent
       ELSE /\ pc' = "next"
            /\ UNCHANGED <<sent, result>>
    /\ UNCHANGED <<mainVars, session, consumed, pings, pb_c, pb_verify_c,
                   displayed, unmatched_c, artifacts, accounts_file, last>>

\* The locals of geyser_subscribe are gone once the attempt has returned.
DropSession ==
    /\ session' = NoSession
    /\ sent' = <<>>
    /\ consumed' = 0
    /\ pings' = 0
    /\ counter' = 0
    /\ pb_c' = ZeroCounts
    /\ pb_verify_c' = NoneOpt
    /\ displayed' = 0
    /\ unmatched_c' = 0
    /\ artifacts' = 0
    /\ accounts_file' = NoneOpt
    /\ last' = NoMessage

\* retry() on what the attempt returned. client.rs:651, 765-771
\* Ok(()): retry() returns it and main ends with success.
RetryOk ==
    /\ pc = "returned"
    /\ result.class = "ok"
    /\ pc' = "exit"
    /\ exit_status' = "ok"
    /\ DropSession
    /\ UNCHANGED <<args, zero_attempts, zero_attempts_lock, retry_notices, connects, result,
                   retryVars, initial_requests>>

\* backoff::Error::Permanent: retry() returns the error, main ends with it.
RetryPermanent ==
    /\ pc = "returned"
    /\ result.class = "permanent"
    /\ pc' = "exit"
    /\ exit_status' = "err"
    /\ DropSession
    /\ UNCHANGED <<args, zero_attempts, zero_attempts_lock, retry_notices, connects, result,
                   retryVars, initial_requests>>

\* A transient error, and next_backoff() has no delay to give (the clock has
\* passed max_elapsed_time, or would during the delay): retry() returns the
\* error and main ends with it.
RetryGiveUp ==
    /\ pc = "returned"
    /\ result.class = "transient"
    /\ \E elapsed \in ClockReadings, random \in RandomDraws :
         LET nb == next_backoff(backoff, elapsed, random)
         IN  /\ ~IsSome(nb.delay)
             /\ backoff' = nb.backoff
    /\ pc' = "exit"
    /\ exit_status' = "err"
    /\ DropSession
    /\ UNCHANGED <<args, zero_attempts, zero_attempts_lock, retry_notices, connects, result, clock,
                   calls, initial_requests>>

\* A transient error, and next_backoff() gives a delay: retry() sleeps it
\* and calls the closure again.
RetryAgain ==
    /\ pc = "returned"
    /\ result.class = "transient"
    /\ connects < MaxAttempts
    /\ \E elapsed \in ClockReadings, random \in RandomDraws :
         LET nb == next_backoff(backoff, elapsed, random)
         IN  /\ IsSome(nb.delay)
             /\ backoff' = nb.backoff
    /\ pc' = "attempt"
    /\ DropSession
    /\ UNCHANGED <<args, zero_attempts, zero_attempts_lock, retry_notices, connects, exit_status,
                   result, clock, calls, initial_requests>>

Next ==
    \/ AttemptStart
    \/ ConnectOk
    \/ ConnectFail
    \/ BuildRequest
    \/ SubscribeOpen
    \/ StreamNextErr
    \/ StreamEnd
    \/ HandleStats
    \/ HandleDisplay
    \/ Resubscribe
    \/ RetryOk
    \/ RetryPermanent
    \/ RetryGiveUp
    \/ RetryAgain

Spec == Init /\ [][Next]_vars

\* ------------------------------------------------------------- BackoffSpec
\* The schedule of retry() by itself: the policy of client.rs:651 asked for
\* delay after delay by attempts that all fail, with the clock kept.
BackoffInit == Init /\ args = ArgsSlots

\* One failed attempt of duration d, then next_backoff() and the sleep.
NextBackoff ==
    /\ Len(calls) < MaxCalls
    /\ IF calls = <<>> THEN TRUE ELSE IsSome(calls[Len(calls)].delay)
    /\ \E d \in Durations, random \in RandomDraws :
         LET nb == next_backoff(backoff, clock + d, random)
         IN  /\ backoff' = nb.backoff
             /\ calls' = Append(calls,
                                [current_interval |-> backoff.current_interval,
                                 elapsed |-> clock + d,
                                 delay |-> nb.delay])
             /\ clock' = clock + d + unwrap_or(nb.delay, 0)
    /\ UNCHANGED <<args, pc, zero_attempts, zero_attempts_lock, retry_notices, connects,
                   exit_status, initial_requests, sessionVars, result>>

BackoffSpec == BackoffInit /\ [][NextBackoff]_vars

\* ------------------------------------------------------------- BuilderSpec
\* The builder by itself: the attempt has connected and get_subscribe_request
\* is called next (client.rs:688), for every arguments of BuilderArgsSet.
BuilderInit ==
    /\ args \in BuilderArgsSet
    /\ pc = "build"
    /\ zero_attempts = FALSE
    /\ zero_attempts_lock = "free"
    /\ retry_notices = 0
    /\ connects = 1
    /\ session = NoSession
    /\ sent = <<>>
    /\ consumed = 0
    /\ pings = 0
    /\ counter = 0
    /\ pb_c = ZeroCounts
    /\ pb_verify_c = NoneOpt
    /\ displayed = 0
    /\ unmatched_c = 0
    /\ artifacts = 0
    /\ result = NoResult
    /\ exit_status = "running"
    /\ backoff = ExponentialBackoff_default
    /\ clock = 0
    /\ calls = <<>>
    /\ accounts_file = NoneOpt
    /\ last = NoMessage
    /\ initial_requests = {}

BuilderSpec == BuilderInit /\ [][BuildRequest]_vars

\* ------------------------------------------------------------------ claims
\* The requests this session sent from `site` ("initial", "pong", "resub").
NumSent(site) == Cardinality({i \in 1..Len(sent) : sent[i].site = site})

\* The session is between two messages: every item consumed so far has been
\* handled to the end and stream.next() is awaited.
AtNext == pc = "next"

\* C1: in every session, display or stats, each Ping received has been
\* answered by one acknowledgement by the time the next inbound message is
\* awaited (and when the message index is about to be advanced).
C1_PongBeforeNext == pc \in {"next", "resub"} => NumSent("pong") = pings

\* C2: the process never ends as the outcome of a stream error item or of
\* the end of the stream: such an outcome is retried.
C2_StreamEndRetried ==
    result.why \in {"stream_err", "stream_end"} =>
        /\ result.class = "transient"
        /\ exit_status # "ok"

\* C3: the process never ends as the outcome of a message without variant:
\* such an outcome is retried.
C3_NoVariantRetried ==
    result.why = "no_variant" =>
        /\ result.class = "transient"
        /\ exit_status # "ok"

\* C4: when building the request fails, no connect has been started.
C4_NoConnectBeforeValidation == result.why = "build" => connects = 0

\* C5: a failure of request building is permanent: the attempt that met it
\* is the last one (no connect and no session follows), and when the process
\* has ended its status is the error.
C5_BuildErrorPermanent ==
    result.why = "build" =>
        /\ result.class = "permanent"
        /\ pc \in {"returned", "exit"}
        /\ pc = "exit" => exit_status = "err"

\* C5 witness: the process has ended with "invalid memcmp".
C5_Witness ==
    /\ pc = "exit"
    /\ exit_status = "err"
    /\ result.why = "build"
    /\ result.error.msg = "invalid memcmp"

\* C6: with resub = N > 0, in every session (display or stats), whenever the
\* next message is awaited the resubscribe request has been sent exactly if
\* N or more messages have been processed.
C6_ResubAfterN ==
    (AtNext /\ session.resub > 0) =>
        (NumSent("resub") >= 1 <=> consumed >= session.resub)

\* C7: a session sends the resubscribe request at most once.
C7_ResubAtMostOnce == NumSent("resub") <= 1

\* C7 witness: after the resubscription a further message has been handled.
C7_Witness ==
    /\ AtNext
    /\ NumSent("resub") = 1
    /\ consumed > session.resub

\* C8 as claimed: the resubscribe request is sent only when resub updates
\* that are neither Ping nor Pong have been processed.
C8_OnlyDataCounts == NumSent("resub") >= 1 => displayed >= session.resub

\* C8 as amended: in display mode every update handled, Ping and Pong
\* included, advances the message index, and the resubscribe request has
\* been sent exactly if resub > 0 updates of any kind have been handled.
C8_AllUpdatesCount ==
    (AtNext /\ ~session.stats) =>
        /\ counter = consumed
        /\ session.resub > 0 =>
               (NumSent("resub") = 1 <=> consumed >= session.resub)

\* C8 witness: the resubscribe request went out after a Ping alone.
C8_Witness ==
    /\ AtNext
    /\ NumSent("resub") = 1
    /\ pings >= 1
    /\ displayed = 0

\* C9: with --resub 0, or without --resub, no resubscribe request is sent.
C9_ResubZeroNever ==
    (~IsSome(args.resub) \/ args.resub = Some(0)) => NumSent("resub") = 0

\* C9 witness: a display session with --resub 0 has handled two messages.
C9_Witness ==
    /\ AtNext
    /\ args.resub = Some(0)
    /\ ~session.stats
    /\ consumed >= 2

\* C10: every resubscribe request holds one slots entry with default options
\* and nothing else, whatever the initial request was.
C10_ResubRequestContent ==
    \A i \in 1..Len(sent) :
        sent[i].site = "resub" =>
            LET r == sent[i].request
            IN  /\ DOMAIN r.slots = {"client"}
                /\ r.slots["client"] =
                       [filter_by_commitment |-> <<>>, interslot_updates |-> <<>>]
                /\ DOMAIN r.accounts = {}
                /\ DOMAIN r.transactions = {}
                /\ DOMAIN r.transactions_status = {}
                /\ DOMAIN r.entry = {}
                /\ DOMAIN r.blocks = {}
                /\ DOMAIN r.blocks_meta = {}
                /\ r.commitment = <<>>
                /\ r.ping = <<>>
                /\ r.from_slot = <<>>
                /\ r.accounts_data_slice = <<>>

\* C10 witness: a resubscription in a session whose initial request has
\* accounts and transactions filters, data slices and a commitment.
C10_Witness ==
    \E i \in 1..Len(sent) :
        /\ sent[i].site = "resub"
        /\ sent[1].site = "initial"
        /\ DOMAIN sent[1].request.accounts # {}
        /\ sent[1].request.accounts_data_slice # <<>>
        /\ IsSome(sent[1].request.commitment)

\* C11: a connect failure is always classified transient and followed by
\* another attempt: the process never ends as the outcome of a failed
\* connect, however many attempts and however much time went before.
C11_ConnectAlwaysRetried ==
    result.why = "connect" =>
        /\ result.class = "transient"
        /\ pc # "exit"

C13_DecodeErrorRetried ==
    result.why = "decode" =>
        /\ result.class = "transient"
        /\ pc # "exit"

\* C14: a failed send (of the initial request, of an acknowledgement, of the
\* resubscribe request) ends the session with an error that is classified
\* transient and is retried: the process never ends as its outcome.
C14_SendFailureRetried ==
    result.why \in {"subscribe", "send_pong", "send_resub"} =>
        /\ result.class = "transient"
        /\ pc # "exit"

\* ----------------------------------------------- the builder, as claimed
\* The call of the builder has returned a request / an error.
Built == pc = "subscribe"

BuildFailed == pc = "returned" /\ result.why = "build"

\* Text s holds the character c; the text before and after the first c.
HasChar(s, c) == \E i \in 1..Len(s) : s[i] = c

FirstAt(s, c) ==
    CHOOSE i \in 1..Len(s) : s[i] = c /\ \A k \in 1..(i - 1) : s[k] # c

Before(s, c) == SubSeq(s, 1, FirstAt(s, c) - 1)

After(s, c) == SubSeq(s, FirstAt(s, c) + 1, Len(s))

\* Text t parses as an unsigned integer, and the integer.
IsUnsigned(t) == IsSome(parse_u64(t))

Unsigned(t) == Unwrap(parse_u64(t))

\* Text t without the blanks at its two ends.
Stripped(t) ==
    LET inked == {i \in 1..Len(t) : t[i] # " "}
    IN  IF inked = {} THEN <<>>
        ELSE SubSeq(t, CHOOSE i \in inked : \A j \in inked : i <= j,
                       CHOOSE i \in inked : \A j \in inked : i >= j)

\* The accounts filters of one kind in the request built, in order.
IsMemcmp(f) == f.kind = "Memcmp"

IsLamports(f) == f.kind = "Lamports"

BuiltFilters == session.request.accounts["client"].filters

\* C15: in the request built, each of the seven category maps is non-empty
\* exactly if the category's flag is set, and then holds one entry, under
\* the label "client".
C15_CategoryMaps ==
    Built =>
        LET r == session.request
            Follows(flag, map) ==
                /\ (DOMAIN map # {}) <=> flag
                /\ flag => DOMAIN map = {"client"}
        IN  /\ Follows(args.accounts, r.accounts)
            /\ Follows(args.slots, r.slots)
            /\ Follows(args.transactions, r.transactions)
            /\ Follows(args.transactions_status, r.transactions_status)
            /\ Follows(args.entries, r.entry)
            /\ Follows(args.blocks, r.blocks)
            /\ Follows(args.blocks_meta, r.blocks_meta)

\* C15 witness: a request with some categories on and others off, blocks
\* and blocks meta among those that differ.
C15_Witness ==
    /\ Built
    /\ args.entries /\ args.blocks_meta /\ ~args.blocks /\ ~args.slots
    /\ DOMAIN session.request.blocks_meta = {"client"}
    /\ DOMAIN session.request.blocks = {}

\* A memcmp string as the claim reads it: a comma, and an unsigned integer
\* before the first one.
MemcmpOk(s) == HasChar(s, ",") /\ IsUnsigned(Before(s, ","))

\* C16, with payload(s) what the claim takes the payload of string s to
\* be: when accounts is enabled and the builder has returned, a request was
\* built only if every memcmp string is well formed, it then holds one memcmp
\* filter for each string, in order, with the string's offset and payload;
\* a malformed string makes the builder fail, and the builder fails over a
\* memcmp string only if one is malformed.
C16_Memcmp(payload(_)) ==
    (args.accounts /\ pc # "build") =>
        LET strs == args.accounts_memcmp
        IN  /\ Built =>
                   LET fs == SelectSeq(BuiltFilters, IsMemcmp)
                   IN  /\ \A i \in 1..Len(strs) : MemcmpOk(strs[i])
                       /\ Len(fs) = Len(strs)
                       /\ \A i \in 1..Len(strs) :
                              /\ fs[i].offset = Unsigned(Before(strs[i], ","))
                              /\ fs[i].base58 = payload(strs[i])
            /\ (\E i \in 1..Len(strs) : ~MemcmpOk(strs[i])) => BuildFailed
            /\ (BuildFailed /\ result.error.msg \in {"invalid memcmp", "invalid offset"})
                   => \E i \in 1..Len(strs) : ~MemcmpOk(strs[i])

PayloadAsIs(s) == After(s, ",")

PayloadStripped(s) == Stripped(After(s, ","))

\* C16 as claimed: the payload is the text after the first comma.
C16_MemcmpPayloadAsIs == C16_Memcmp(PayloadAsIs)

\* C16 as amended: the payload is the text after the first comma without
\* the blanks at its two ends.
C16_MemcmpPayloadStripped == C16_Memcmp(PayloadStripped)

\* C16 witness: "1,2,3" and "0, ab " have been built into two filters.
C16_Witness ==
    /\ Built
    /\ args.accounts
    /\ args.accounts_memcmp = <<Txt_1_2_3, Txt_0_ab_blanks>>
    /\ SelectSeq(BuiltFilters, IsMemcmp) =
           <<[kind |-> "Memcmp", offset |-> 1, base58 |-> <<"2", ",", "3">>],
             [kind |-> "Memcmp", offset |-> 0, base58 |-> <<"a", "b">>]>>

\* The comparator a lamports string names, as the claim lists them.
ClaimedCmp(c) ==
    CASE c = <<"e", "q">> -> "Eq"
      [] c = <<"n", "e">> -> "Ne"
      [] c = <<"l", "t">> -> "Lt"
      [] c = <<"g", "t">> -> "Gt"

\* A lamports string as the claim reads it: cmp:value with cmp one of eq,
\* ne, lt, gt and value an unsigned integer.
LamportsOk(s) ==
    /\ HasChar(s, ":")
    /\ Before(s, ":") \in {<<"e", "q">>, <<"n", "e">>, <<"l", "t">>, <<"g", "t">>}
    /\ IsUnsigned(After(s, ":"))

\* C17: when accounts is enabled and the builder has returned, a request was
\* built only if every lamports string is well formed, it then holds one
\* lamports filter for each string, in order, with the comparator named and
\* the value; a malformed string makes the builder fail, and the builder
\* fails over a lamports string only if one is malformed.
C17_LamportsParsed ==
    (args.accounts /\ pc # "build") =>
        LET strs == args.accounts_lamports
        IN  /\ Built =>
                   LET fs == SelectSeq(BuiltFilters, IsLamports)
                   IN  /\ \A i \in 1..Len(strs) : LamportsOk(strs[i])
                       /\ Len(fs) = Len(strs)
                       /\ \A i \in 1..Len(strs) :
                              /\ fs[i].cmp = ClaimedCmp(Before(strs[i], ":"))
                              /\ fs[i].value = Unsigned(After(strs[i], ":"))
            /\ (\E i \in 1..Len(strs) : ~LamportsOk(strs[i])) => BuildFailed
            /\ (BuildFailed /\ result.error.msg \in
                    {"invalid lamports", "invalid lamports value: ",
                     "invalid lamports filter: "})
                   => \E i \in 1..Len(strs) : ~LamportsOk(strs[i])

\* C17 witness: "gt:100" and "lt:42" have been built into greater-than 100
\* and less-than 42.
C17_Witness ==
    /\ Built
    /\ args.accounts
    /\ args.accounts_lamports = <<Txt_gt_100, Txt_lt_42>>
    /\ SelectSeq(BuiltFilters, IsLamports) =
           <<[kind |-> "Lamports", cmp |-> "Gt", value |-> 100],
             [kind |-> "Lamports", cmp |-> "Lt", value |-> 42]>>

\* A data-slice string as the claim reads it: offset,length, both unsigned
\* integers.
SliceOk(s) ==
    /\ HasChar(s, ",")
    /\ IsUnsigned(Before(s, ","))
    /\ IsUnsigned(After(s, ","))

\* C18: when the builder has returned, a request was built only if every
\* data-slice string is well formed, and its data-slice list then holds one
\* entry for each string, in order, with the string's offset and length; a
\* malformed string makes the builder fail, and the builder fails over a
\* data-slice string only if one is malformed.
C18_DataSliceParsed ==
    pc # "build" =>
        LET strs == args.accounts_data_slice
        IN  /\ Built =>
                   LET ds == session.request.accounts_data_slice
                   IN  /\ \A i \in 1..Len(strs) : SliceOk(strs[i])
                       /\ Len(ds) = Len(strs)
                       /\ \A i \in 1..Len(strs) :
                              /\ ds[i].offset = Unsigned(Before(strs[i], ","))
                              /\ ds[i].length = Unsigned(After(strs[i], ","))
            /\ (\E i \in 1..Len(strs) : ~SliceOk(strs[i])) => BuildFailed
            /\ (BuildFailed /\ result.error.msg = "invalid data_slice")
                   => \E i \in 1..Len(strs) : ~SliceOk(strs[i])

\* C18 witness: "4,8" and "0,32" have been built into two entries in that
\* order, in a request without accounts.
C18_Witness ==
    /\ Built
    /\ ~args.accounts
    /\ args.accounts_data_slice = <<Txt_4_8, Txt_0_32>>
    /\ session.request.accounts_data_slice =
           <<[offset |-> 4, length |-> 8], [offset |-> 0, length |-> 32]>>

\* ------------------------------------------------------ the address file
\* The file named by --accounts-account-path, as the claim takes it to count:
\* whenever a path is given / when a path is given and accounts is enabled.
PathGiven == IsSome(args.accounts_account_path)

PathGivenAndAccounts == args.accounts /\ PathGiven

\* C19, with `applies` the condition under which the file counts: when it
\* holds and a request was built, the file was read and parsed, and the
\* accounts filter holds the explicit addresses followed by the addresses of
\* the file, in order; a file that could not be read or parsed makes the
\* build fail with that error; a failed build is permanent, and after it
\* the process makes no further attempt and exits with the error.
C19_File(applies) ==
    /\ (Built /\ applies) =>
          /\ IsSome(accounts_file)
          /\ Unwrap(accounts_file).ok
          /\ DOMAIN session.request.accounts = {"client"}
          /\ session.request.accounts["client"].account =
                 args.accounts_account \o Unwrap(accounts_file).val
    /\ (IsSome(accounts_file) /\ ~Unwrap(accounts_file).ok) =>
          /\ BuildFailed
          /\ result.error.msg = Unwrap(accounts_file).msg
    /\ result.why = "build" =>
          /\ result.class = "permanent"
          /\ pc \in {"returned", "exit"}
          /\ pc = "exit" => exit_status = "err"

\* C19 as claimed: the file counts whenever a path is given.
C19_FileWheneverPathGiven == C19_File(PathGiven)

\* C19 amended: the file counts when a path is given and accounts is
\* enabled; with accounts off the file is not opened at all.
C19_FileWhenAccountsEnabled == C19_File(PathGivenAndAccounts)

\* C19 witness: a session was opened with the explicit address followed by
\* the address of the file, and in a later attempt the file could not be
\* opened: the process has exited with that error.
C19_Witness ==
    /\ pc = "exit"
    /\ exit_status = "err"
    /\ result.why = "build"
    /\ result.error.msg = "io"
    /\ \E r \in initial_requests :
          /\ DOMAIN r.accounts = {"client"}
          /\ r.accounts["client"].account = <<"A1", "A2">>

\* C20: all sessions of one process transmit the same initial request, on
\* the first connect and on every reconnect, whatever happens to the address
\* file between the attempts.
C20_InitialRequestFixed == Cardinality(initial_requests) <= 1

\* ------------------------------------------------------ the session's state
\* geyser_subscribe has been called and has not yet taken an item from the
\* stream: the request is about to be sent, or the stream was just opened.
SessionStart == pc = "subscribe" \/ (pc = "next" /\ consumed = 0)

\* C21: at the start of every session, the first and each later one, every
\* category count and the total are zero, the timing sums of the verifier
\* (when it has any) are zero, and the message index is zero.
C21_CountersZeroAtStart ==
    SessionStart =>
        /\ \A k \in DOMAIN pb_c : pb_c[k] = 0
        /\ IsSome(pb_verify_c) => Unwrap(pb_verify_c) = <<0, 0>>
        /\ IsSome(pb_verify_c) <=> session.verify_encoding
        /\ counter = 0

\* C21 witness: a second session of a verifying process starts, after a
\* first one whose stream had been opened.
C21_Witness ==
    /\ pc = "subscribe"
    /\ connects = 2
    /\ initial_requests # {}
    /\ session.stats /\ session.verify_encoding
    /\ session.resub = 1

\* The item taken last is an update that carries a variant.
HasVariant == last.variant \in {"Data", "Ping", "Pong"}

C23_NoVerifierWhenOff ==
    ~args.verify_encoding =>
        /\ pb_verify_c = NoneOpt
        /\ last.route # "verifier"
        /\ unmatched_c = 0
        /\ artifacts = 0
        /\ result.why \notin {"convert", "artifact_io"}

\* C23 witness: a stats session without the verifier flag has counted two
\* updates.
C23_Witness ==
    /\ ~args.verify_encoding
    /\ session.stats
    /\ pc = "next"
    /\ consumed = 2
    /\ pb_c.total = 2
    /\ last.route = "counted"

\* The write of the file for the mismatch found last has failed, and the
\* session has returned that error.
ArchiveFailed == pc = "returned" /\ result.why = "artifact_io"

C25_DivergenceNeverEnds == result.why # "artifact_io"

\* ------------------------------------------------------- control messages
\* The acknowledgements this session has sent.
SentPongs == NumSent("pong")

\* C26: in every session the acknowledgements sent are at most the Ping
\* updates taken from the stream, and each acknowledgement is sent in
\* handling a Ping: one at a time, with the Ping that it answers.
C26_PongsOnlyForPings ==
    /\ [](SentPongs <= pings)
    /\ [][SentPongs' > SentPongs =>
              /\ SentPongs' = SentPongs + 1
              /\ pings' = pings + 1
              /\ consumed' = consumed + 1
              /\ last'.variant = "Ping"]_vars

\* C26 witness: a stream of one Ping and then a Pong has been taken, and
\* one acknowledgement was sent.
C26_Witness ==
    /\ consumed = 2
    /\ pings = 1
    /\ last = Message("Pong", "display")
    /\ SentPongs = 1
    /\ pc = "next"

\* C27: a message without variant ends the loop at once.  In the step that
\* takes it nothing is counted or displayed, the message index stays, no
\* request is sent, and the session returns; the session takes no later
\* item (the message stays the last one until the session is gone).
C27_NoVariantEndsLoop ==
    /\ [](last.variant = "None" => pc = "returned")
    /\ [][(last'.variant = "None" /\ consumed' = consumed + 1) =>
              /\ pc' = "returned"
              /\ pb_c' = pb_c
              /\ pb_verify_c' = pb_verify_c
              /\ displayed' = displayed
              /\ counter' = counter
              /\ sent' = sent]_vars

\* C27 witness: a display session with resub = 1 took a message without
\* variant as its first, and has left the loop having sent only the
\* initial request.
C27_Witness ==
    /\ ~session.stats
    /\ session.resub = 1
    /\ last = Message("None", "display")
    /\ consumed = 1
    /\ result.why = "no_variant"
    /\ pc = "returned"
    /\ Len(sent) = 1

\* A step of the handling of a Pong: the one that takes it from the stream,
\* or the one at the foot of the loop after it (client.rs:1019-1041).
PongStep ==
    \/ consumed' = consumed + 1 /\ last'.variant = "Pong"
    \/ pc = "resub" /\ last.variant = "Pong"

\* C28 as claimed: in handling a Pong no request of any kind is sent, and
\* nothing but counts changes: nothing is displayed or written, and the
\* session does not end.
C28_PongOnlyCounted ==
    [][PongStep =>
           /\ sent' = sent
           /\ displayed' = displayed
           /\ artifacts' = artifacts
           /\ pc' # "returned"]_vars

\* C28 amended: in handling a Pong no acknowledgement is sent and nothing is
\* displayed.  A Pong counts like any update: in display mode it advances
\* the message index, and the resubscribe request is sent after it when it
\* brings the index to resub; in stats mode it goes to the verifier when
\* there is one.  The session ends in handling it only with an error: of
\* created_at (display mode), of the verifier, or of the resubscribe send.
C28_PongCounted ==
    [][PongStep =>
           /\ displayed' = displayed
           /\ pings' = pings
           /\ SentPongs' = SentPongs
           /\ sent' # sent =>
                 /\ pc = "resub"
                 /\ counter' = session.resub
                 /\ sent' = Append(sent, Sent("resub", ResubRequest))
           /\ (pc = "next" /\ last'.route = "display" /\ pc' # "returned") =>
                 pc' = "resub" /\ counter' = counter
           /\ pc = "resub" => counter' = counter + 1
           /\ artifacts' # artifacts => last'.route = "verifier"
           /\ pc' = "returned" =>
                 result'.why \in
                     IF last'.route = "verifier" THEN {"convert", "artifact_io"}
                     ELSE IF last'.route # "display" THEN {}
                     ELSE IF pc = "next" THEN {"decode"}
                     ELSE {"send_resub"}]_vars

\* C28 witness: a display session with resub = 1 took a Pong as its first
\* message and has sent the resubscribe request after it.
C28_Witness ==
    /\ last = Message("Pong", "display")
    /\ consumed = 1
    /\ counter = 1
    /\ session.resub = 1
    /\ pc = "next"
    /\ sent = <<Sent("initial", session.request), Sent("resub", ResubRequest)>>

\* C29: requests go out one at a time and in order.  Every step adds at
\* most one request, behind those sent before; a step that takes an item
\* from the stream sends nothing but the acknowledgement of that item, and
\* the resubscribe request is sent only at the foot of the loop, so every
\* request caused by one message is sent before the next is taken; when a
\* Ping has brought the message index to resub, the acknowledgement and
\* then the resubscribe request are the last two requests sent.
C29_SendsInOrder ==
    /\ [][sent' # sent =>
              \/ sent' = <<>>
              \/ /\ Len(sent') = Len(sent) + 1
                 /\ SubSeq(sent', 1, Len(sent)) = sent
                 /\ LET added == sent'[Len(sent')]
                    IN  CASE added.site = "initial" -> pc = "subscribe"
                          [] added.site = "pong" ->
                                 /\ pc = "next" /\ consumed' = consumed + 1
                                 /\ last'.variant = "Ping"
                          [] added.site = "resub" ->
                                 pc = "resub" /\ consumed' = consumed]_vars
    /\ []((pc = "next" /\ last = Message("Ping", "display")
                 /\ counter = session.resub) =>
             /\ Len(sent) >= 3
             /\ sent[Len(sent) - 1] = Sent("pong", PongRequest)
             /\ sent[Len(sent)] = Sent("resub", ResubRequest))

\* C29 witness: with resub = 2 the second message was a Ping: the requests
\* sent are the initial one, the acknowledgement, the resubscription.
C29_Witness ==
    /\ pc = "next"
    /\ session.resub = 2
    /\ consumed = 2
    /\ last = Message("Ping", "display")
    /\ sent = <<Sent("initial", session.request), Sent("pong", PongRequest),
                Sent("resub", ResubRequest)>>

\* ------------------------------------------------------------ the attempts
\* The session of this attempt exists: geyser_subscribe has been called and
\* its locals are not yet gone.
Running == pc \in {"subscribe", "next", "resub"}

\* C30: a session starts only after the connect of its attempt succeeded
\* and the request was built (attempt, connect, build, session, in that
\* order), and only when no other session exists; once its stream is open
\* a session has sent the request built for it once, as its first request,
\* and it never sends it again; it takes no item before that.
C30_SessionAfterConnect ==
    /\ [][/\ (pc' = "connect" /\ pc # "connect") =>
                 pc = "attempt" /\ connects' = connects + 1
          /\ (pc' = "build" /\ pc # "build") => pc = "connect"
          /\ (pc' = "subscribe" /\ pc # "subscribe") =>
                 pc = "build" /\ session = NoSession /\ connects >= 1
          /\ (pc' = "next" /\ pc = "subscribe") =>
                 sent' = <<Sent("initial", session.request)>>
          /\ consumed' # consumed => pc \in {"next", "returned"}]_vars
    /\ [](/\ session # NoSession => Running \/ pc = "returned"
          /\ NumSent("initial") <= 1
          /\ pc \in {"next", "resub"} \/ consumed > 0 =>
                /\ Len(sent) >= 1
                /\ sent[1] = Sent("initial", session.request)
                /\ NumSent("initial") = 1
          /\ pc = "subscribe" => consumed = 0 /\ sent = <<>>)

\* C30 witness: the second attempt of a process has connected, opened its
\* session with the request, and taken one update.
C30_Witness ==
    /\ connects = 2
    /\ pc = "next"
    /\ consumed = 1
    /\ last.variant = "Data"
    /\ sent = <<Sent("initial", session.request)>>
    /\ DOMAIN session.request.accounts = {"client"}

\* C31: the step that sends the resubscribe request with success leaves
\* the session running on the same stream: the session does not return, no
\* connect is started, its parameters, its counts and all it has taken and
\* sent so far stay, and stream.next() is awaited next.
C31_ResubKeepsSession ==
    [][(pc = "resub" /\ sent' # sent) =>
           /\ sent' = Append(sent, Sent("resub", ResubRequest))
           /\ pc' = "next"
           /\ result' = result
           /\ connects' = connects
           /\ retry_notices' = retry_notices
           /\ session' = session
           /\ consumed' = consumed
           /\ <<pb_c, pb_verify_c, displayed, pings>>' =
                  <<pb_c, pb_verify_c, displayed, pings>>]_vars

\* C31 witness: with resub = 1, the session of the first attempt has sent
\* the resubscription after its first message and then taken a second one.
C31_Witness ==
    /\ connects = 1
    /\ session.resub = 1
    /\ consumed = 2
    /\ displayed = 2
    /\ pc = "next"
    /\ sent = <<Sent("initial", session.request), Sent("resub", ResubRequest)>>

\* ---------------------------------------------------- the first-attempt flag
\* C32: the retry line is logged at the start of every attempt but the
\* first: after n attempts have started it has been logged n - 1 times, and
\* it is logged only in the step that starts an attempt.  The flag is true
\* exactly until the first attempt starts, and once false it stays false.
C32_RetryNotices ==
    /\ [](/\ zero_attempts <=> connects = 0
          /\ retry_notices = IF connects = 0 THEN 0 ELSE connects - 1)
    /\ [][/\ zero_attempts' => zero_attempts
          /\ retry_notices' # retry_notices =>
                /\ pc = "attempt" /\ pc' = "connect"
                /\ ~zero_attempts
                /\ retry_notices' = retry_notices + 1]_vars

\* C32 witness: the second attempt has started and the line was logged once.
C32_Witness ==
    /\ connects = 2
    /\ pc = "connect"
    /\ retry_notices = 1
    /\ ~zero_attempts

\* C33: the Mutex of the flag is never contended.  Whenever an attempt is
\* about to start the Mutex is free, so lock() completes at once; the guard
\* is given back before the connect is awaited, and is held at no point
\* where the process waits for anything else.
C33_LockNeverContended ==
    /\ pc = "attempt" => zero_attempts_lock = "free"
    /\ pc = "connect" => zero_attempts_lock = "free"
    /\ zero_attempts_lock = "free"

\* C33 witness: the first attempt has failed and the second is about to
\* take the lock.
C33_Witness ==
    /\ pc = "attempt"
    /\ connects = 1
    /\ ~zero_attempts
    /\ zero_attempts_lock = "free"
    /\ result.class = "transient"

\* ------------------------------------------------------ the builder, again
\* C34: an error of the builder over a memcmp string carries the text that
\* did not parse: the whole string when the comma is missing, the text
\* before the comma when it is no unsigned integer.
C34_MemcmpErrorNamesToken ==
    (BuildFailed /\ result.error.msg \in {"invalid memcmp", "invalid offset"}) =>
        /\ IsSome(result.error.arg)
        /\ \E i \in 1..Len(args.accounts_memcmp) :
              LET s == args.accounts_memcmp[i]
              IN  Unwrap(result.error.arg) =
                      IF HasChar(s, ",") THEN Before(s, ",") ELSE s

\* ------------------------------------------------------------- the counts
\* The eight category counts of stats mode.
Categories ==
    {"accounts", "slots", "txs", "txs_st", "entries", "blocks_mt", "blocks",
     "pp"}

CategorySum ==
    pb_c.accounts + pb_c.slots + pb_c.txs + pb_c.txs_st + pb_c.entries
        + pb_c.blocks_mt + pb_c.blocks + pb_c.pp

\* C35: the total always equals the sum of the eight category counts.  The
\* step that takes a message with a variant in stats mode adds one to one
\* category count and one to the total, a Ping and a Pong both to the
\* ping/pong count; a message without variant adds nothing; within a
\* session no count ever goes down.
C35_TotalIsSum ==
    /\ [](pb_c.total = CategorySum)
    /\ [][/\ (pc = "next" /\ session.stats /\ consumed' = consumed + 1
                  /\ last'.variant \in {"Data", "Ping", "Pong"}) =>
                /\ pb_c'.total = pb_c.total + 1
                /\ \E k \in Categories :
                      /\ pb_c'[k] = pb_c[k] + 1
                      /\ \A j \in Categories \ {k} : pb_c'[j] = pb_c[j]
                /\ last'.variant \in {"Ping", "Pong"} => pb_c'.pp = pb_c.pp + 1
                /\ last'.variant = "Data" => pb_c'.pp = pb_c.pp
          /\ (pc = "next" /\ consumed' = consumed + 1
                  /\ last'.variant \in {"None", "Err"}) => pb_c' = pb_c
          /\ (pc \in {"next", "resub"}) =>
                \A k \in DOMAIN pb_c : pb_c'[k] >= pb_c[k]]_vars

\* C35 witness: a stats session has taken a Ping and a Pong: the ping/pong
\* count and the total are two.
C35_Witness ==
    /\ session.stats
    /\ pc = "next"
    /\ consumed = 2
    /\ pings = 1
    /\ last.variant = "Pong"
    /\ pb_c.pp = 2
    /\ pb_c.total = 2

\* C36: with accounts off the memcmp and lamports strings are not looked at:
\* the builder fails only over a data-slice string, it builds a request
\* exactly if every data-slice string is well formed, and the accounts map
\* of that request is empty.  With accounts on or off, a malformed
\* data-slice string makes the builder fail, and a request built holds one
\* data slice for each string, in order.
C36_ValidatedOnlyIfEnabled ==
    pc # "build" =>
        LET slices == args.accounts_data_slice
            SlicesOk == \A i \in 1..Len(slices) : SliceOk(slices[i])
        IN  /\ ~args.accounts =>
                  /\ Built <=> SlicesOk
                  /\ BuildFailed <=> ~SlicesOk
                  /\ BuildFailed => result.error.msg = "invalid data_slice"
                  /\ Built => DOMAIN session.request.accounts = {}
            /\ ~SlicesOk => BuildFailed
            /\ Built =>
                  LET ds == session.request.accounts_data_slice
                  IN  /\ Len(ds) = Len(slices)
                      /\ \A i \in 1..Len(slices) :
                            ds[i] = [offset |-> Unsigned(Before(slices[i], ",")),
                                     length |-> Unsigned(After(slices[i], ","))]

\* C36 witness: with accounts off, a request was built from "x,abc" as
\* memcmp, "gt:x" as lamports and "4,8" as data slice.
C36_Witness ==
    /\ Built
    /\ ~args.accounts
    /\ args.accounts_memcmp = <<Txt_x_abc>>
    /\ args.accounts_lamports = <<Txt_gt_x>>
    /\ args.accounts_data_slice = <<Txt_4_8>>
    /\ DOMAIN session.request.accounts = {}
    /\ session.request.accounts_data_slice = <<[offset |-> 4, length |-> 8]>>

\* ------------------------------------------------------ the acknowledgement
\* C37: every acknowledgement sent carries the ping identifier 1 and nothing
\* else: its seven filter maps are empty and it has no commitment, no
\* from_slot and no data slice.
C37_PongContent ==
    \A i \in 1..Len(sent) :
        sent[i].site = "pong" =>
            LET r == sent[i].request
            IN  /\ r.ping = <<[id |-> 1]>>
                /\ DOMAIN r.accounts = {} /\ DOMAIN r.slots = {}
                /\ DOMAIN r.transactions = {}
                /\ DOMAIN r.transactions_status = {}
                /\ DOMAIN r.entry = {} /\ DOMAIN r.blocks = {}
                /\ DOMAIN r.blocks_meta = {}
                /\ r.commitment = <<>>
                /\ r.from_slot = <<>>
                /\ r.accounts_data_slice = <<>>

\* C37 witness: a session whose own request has ping 7, a commitment and a
\* from_slot has answered a Ping.
C37_Witness ==
    /\ Len(sent) = 2
    /\ sent[2].site = "pong"
    /\ session.request.ping = <<[id |-> 7]>>
    /\ session.request.from_slot = <<5>>
    /\ DOMAIN session.request.slots = {"client"}
    /\ pc = "resub"

\* ------------------------------------------------------ the filter list
\* C38: the filter list of a request built with accounts on holds, in this
\* order, one memcmp filter for each memcmp string in input order, the
\* datasize filter if --accounts-datasize is given, the token-account-state
\* filter if that flag is set, one lamports filter for each lamports string
\* in input order; its length is the sum of those numbers.
C38_FilterOrder ==
    (Built /\ args.accounts) =>
        LET fs == BuiltFilters
            ms == args.accounts_memcmp
            ls == args.accounts_lamports
            n == Len(ms)
            d == IF args.accounts_datasize # <<>> THEN 1 ELSE 0
            t == IF args.accounts_token_account_state THEN 1 ELSE 0
        IN  /\ Len(fs) = n + d + t + Len(ls)
            /\ \A i \in 1..n :
                  /\ fs[i].kind = "Memcmp"
                  /\ fs[i].offset = Unsigned(Before(ms[i], ","))
                  /\ fs[i].base58 = Stripped(After(ms[i], ","))
            /\ d = 1 =>
                  /\ fs[n + 1].kind = "Datasize"
                  /\ fs[n + 1].size = args.accounts_datasize[1]
            /\ t = 1 => fs[n + d + 1].kind = "TokenAccountState"
            /\ \A j \in 1..Len(ls) :
                  /\ fs[n + d + t + j].kind = "Lamports"
                  /\ fs[n + d + t + j].cmp = ClaimedCmp(Before(ls[j], ":"))
                  /\ fs[n + d + t + j].value = Unsigned(After(ls[j], ":"))

\* C38 witness: two memcmp strings, a datasize, the token-account-state
\* flag and two lamports strings have been built into six filters.
C38_Witness ==
    /\ Built
    /\ args.accounts
    /\ args.accounts_memcmp = <<Txt_0_ab_blanks, Txt_10_abc>>
    /\ args.accounts_lamports = <<Txt_lt_42, Txt_gt_100>>
    /\ Len(BuiltFilters) = 6
    /\ BuiltFilters[3] = [kind |-> "Datasize", size |-> 165]
    /\ BuiltFilters[4].kind = "TokenAccountState"
    /\ BuiltFilters[6].value = 100

====
